---------------------------- MODULE Spec2Model ----------------------------
(***************************************************************************)
(* A model of pore_c2: the SAM flag decoding of utils.py (SamEnum,         *)
(* SamFlags and its cached helpers), the FileCollection of utils.py, the   *)
(* header selection of io/__init__.py and the three commands of cli.py     *)
(* (digest, parse_bam, export_bam).                                        *)
(***************************************************************************)
EXTENDS Integers, Sequences, FiniteSets, TLC

VARIABLES
    \* ---- SamFlags harness (utils.py) ----
    val,          \* the integer flag handed to from_int / int_to_* (NoInt: none)
    sf,           \* a SamFlags object held by the caller (NoFlags: none)
    ret,          \* the value returned by the last call: [op, value]
    catCache,     \* lru_cache of SamFlags.int_to_category
    strandCache,  \* lru_cache of SamFlags.int_to_strand
    \* ---- EnzymeCutter harness ----
    seq,          \* the sequence handed to get_cut_sites
    sites,        \* the list get_cut_sites returned (NoSites: not called)
    \* ---- shared by the cutter harness and the commands ----
    enzyme,       \* the enzyme name given
    cutter,       \* the EnzymeCutter built by from_name (NoCutter: none)
    error,        \* the exception that ended the run ("none": none)
    \* ---- the commands of cli.py: what the user gives ----
    cmd,          \* "digest", "parse_bam" or "export_bam"
    input_files,  \* the files found for INPUT (digest) or [bam]
    max_reads,    \* digest --max-reads
    upstream,     \* the concatemers get_concatemer_seqs would yield, in order
    opts,         \* force and the four output flags of parse_bam / export_bam
    fs,           \* the output paths that exist when the command starts
    aligns,       \* the alignments get_monomer_aligns would yield, in order
    \* ---- the commands of cli.py: the run ----
    pc,           \* where the command is
    header,       \* the header get_alignment_header returned
    outputs,      \* the FileCollection of output paths
    writer,       \* "none", "open" or "closed"
    created,      \* the output files the writer opened
    fromNameCalls,\* how often EnzymeCutter.from_name was called
    pulled,       \* concatemers pulled from upstream so far
    cur,          \* monomers of the current concatemer not yet written
    written,      \* monomers handed to the monomer writer, in order
    alignsPulled, \* alignments pulled from the input so far
    group,        \* alignments of the concatemer being collected
    nsWritten,    \* alignments written to the name-sorted output, in order
    nsCounter     \* the name-sorted writer's counter per category

flagVars == <<val, sf, ret, catCache, strandCache>>

cutVars == <<seq, sites>>

sharedVars == <<enzyme, cutter, error>>

cliIn == <<cmd, input_files, max_reads, upstream, opts, fs, aligns>>

digestVars == <<pulled, cur, written>>

bamVars == <<outputs, alignsPulled, group, nsWritten, nsCounter>>

cliVars == <<cliIn, pc, header, writer, created, fromNameCalls, digestVars, bamVars>>

vars == <<flagVars, cutVars, sharedVars, cliVars>>

-----------------------------------------------------------------------------
(* Bounds of the model *)

\* Largest integer flag handed to the SamFlags functions.
MaxFlag == 4607

\* Most concatemers in the upstream read stream of digest.
MaxStreamLen == 2

\* Most alignments in the input of parse_bam / export_bam.
MaxAligns == 2

\* Longest sequence handed to get_cut_sites on its own.
MaxSeqLen == 6

\* Capacity of the lru_cache instances in the model (functools' default is
\* 128; a smaller cache only evicts sooner).
CacheMaxSize == 1

-----------------------------------------------------------------------------
(* utils.py: SamEnum, AlignCategory, SamFlags *)

RECURSIVE BitAnd(_, _)
\* Python's a & b on non-negative integers.
BitAnd(a, b) ==
    IF a = 0 \/ b = 0 THEN 0
    ELSE (IF a % 2 = 1 /\ b % 2 = 1 THEN 1 ELSE 0) + 2 * BitAnd(a \div 2, b \div 2)

RECURSIVE BitOr(_, _)
\* Python's a | b on non-negative integers.
BitOr(a, b) ==
    IF a = 0 THEN b
    ELSE IF b = 0 THEN a
    ELSE (IF a % 2 = 1 \/ b % 2 = 1 THEN 1 ELSE 0) + 2 * BitOr(a \div 2, b \div 2)

\* The fields of SamFlags, in declaration order.
Fields ==
    << "paired", "proper_pair", "unmap", "munmap", "reverse", "mreverse",
       "read1", "read2", "secondary", "qcfail", "dup", "supplementary" >>

FieldSet == { Fields[i] : i \in 1..Len(Fields) }

\* class SamEnum(enum.IntFlag)
SamEnum ==
    [ paired |-> 1, proper_pair |-> 2, unmap |-> 4, munmap |-> 8,
      reverse |-> 16, mreverse |-> 32, read1 |-> 64, read2 |-> 128,
      secondary |-> 256, qcfail |-> 512, dup |-> 1024, supplementary |-> 2048 ]

\* class AlignCategory(enum.IntEnum)
AlignCategory ==
    [ primary |-> 0, unmapped |-> 1, supplementary |-> 2, secondary |-> 3 ]

\* Every value of the attrs class SamFlags (all fields bool).
AllSamFlags == [FieldSet -> BOOLEAN]

\* SamFlags.from_int written as val & SamEnum[key].value > 0 without the
\* parentheses: Python compares first, so every field reads bit 1.
from_int_unparenthesized(v) == [ key \in FieldSet |-> BitAnd(v, 1) > 0 ]

\* SamFlags.from_int
from_int(v) == [ key \in FieldSet |-> BitAnd(v, SamEnum[key]) > 0 ]

RECURSIVE to_int_loop(_, _, _)
to_int_loop(f, i, res) ==
    IF i > Len(Fields) THEN res
    ELSE to_int_loop(f, i + 1,
                     IF f[Fields[i]] = TRUE THEN BitOr(res, SamEnum[Fields[i]])
                     ELSE res)

\* SamFlags.to_int
to_int(f) == to_int_loop(f, 1, 0)

\* SamFlags.primary also excluding unmapped records.
primary_mapped_only(f) == ~(f["secondary"] \/ f["supplementary"] \/ f["unmap"])

\* SamFlags.primary
primary(f) == ~(f["secondary"] \/ f["supplementary"])

\* SamFlags.category testing supplementary before secondary.
category_supp_first(f) ==
    IF f["supplementary"] THEN "supplementary"
    ELSE IF f["secondary"] THEN "secondary"
    ELSE IF f["unmap"] THEN "unmapped"
    ELSE "primary"

\* SamFlags.category
category(f) ==
    IF f["secondary"] THEN "secondary"
    ELSE IF f["supplementary"] THEN "supplementary"
    ELSE IF f["unmap"] THEN "unmapped"
    ELSE "primary"

\* SamFlags.strand testing the reverse bit before the unmapped bit.
strand_reverse_first(f) ==
    IF f["reverse"] THEN "-"
    ELSE IF f["unmap"] THEN "."
    ELSE "+"

\* SamFlags.strand
strand(f) ==
    IF f["unmap"] THEN "."
    ELSE IF f["reverse"] THEN "-"
    ELSE "+"

-----------------------------------------------------------------------------
(* functools.lru_cache as used by int_to_strand / int_to_category: a cache   *)
(* is a sequence of [key, value] entries, least recently used first.         *)

CacheHit(cache, key) == \E i \in 1..Len(cache) : cache[i].key = key

CacheIndex(cache, key) == CHOOSE i \in 1..Len(cache) : cache[i].key = key

Without(cache, i) == SubSeq(cache, 1, i - 1) \o SubSeq(cache, i + 1, Len(cache))

\* The value a cached call returns: the stored one on a hit.
CacheValue(cache, key, computed) ==
    IF CacheHit(cache, key) THEN cache[CacheIndex(cache, key)].value ELSE computed

\* The cache after the call: the entry becomes the most recent, and the least
\* recent one is evicted when the cache is full.
CacheAfter(cache, key, computed) ==
    IF CacheHit(cache, key)
    THEN LET i == CacheIndex(cache, key)
         IN Without(cache, i) \o << cache[i] >>
    ELSE LET grown == Append(cache, [key |-> key, value |-> computed])
         IN IF Len(grown) > CacheMaxSize THEN Tail(grown) ELSE grown

-----------------------------------------------------------------------------
(* The state of the SamFlags harness *)

NoInt == -1
NoFlags == [none |-> TRUE]
NoRet == [op |-> "none", value |-> "none"]

\* The bits a caller's next record may differ in.
ToggleBits == {4}

\* x with bit b flipped.
Toggle(x, b) == IF BitAnd(x, b) > 0 THEN x - b ELSE x + b

\* v = SamFlags.from_int(val)
CallFromInt ==
    /\ val # NoInt
    /\ sf' = from_int(val)
    /\ ret' = [op |-> "from_int", value |-> sf']
    /\ UNCHANGED <<val, catCache, strandCache>>
    /\ UNCHANGED <<cutVars, sharedVars, cliVars>>

\* i = sf.to_int()
CallToInt ==
    /\ sf # NoFlags
    /\ ret' = [op |-> "to_int", value |-> to_int(sf)]
    /\ UNCHANGED <<val, sf, catCache, strandCache>>
    /\ UNCHANGED <<cutVars, sharedVars, cliVars>>

\* SamFlags.from_int(i) on the integer the last to_int returned
CallFromIntOfRet ==
    /\ ret.op = "to_int"
    /\ ret' = [op |-> "from_int_of_to_int", value |-> from_int(ret.value)]
    /\ UNCHANGED <<val, sf, catCache, strandCache>>
    /\ UNCHANGED <<cutVars, sharedVars, cliVars>>

\* SamFlags.from_int(val).category
CallCategory ==
    /\ val # NoInt
    /\ ret' = [op |-> "category", value |-> category(from_int(val))]
    /\ UNCHANGED <<val, sf, catCache, strandCache>>
    /\ UNCHANGED <<cutVars, sharedVars, cliVars>>

\* SamFlags.from_int(val).primary
CallPrimary ==
    /\ val # NoInt
    /\ ret' = [op |-> "primary", value |-> primary(from_int(val))]
    /\ UNCHANGED <<val, sf, catCache, strandCache>>
    /\ UNCHANGED <<cutVars, sharedVars, cliVars>>

\* SamFlags.from_int(val).strand
CallStrand ==
    /\ val # NoInt
    /\ ret' = [op |-> "strand", value |-> strand(from_int(val))]
    /\ UNCHANGED <<val, sf, catCache, strandCache>>
    /\ UNCHANGED <<cutVars, sharedVars, cliVars>>

\* The key under which int_to_category caches the result of flag.
int_to_category_key(flag) == flag

\* SamFlags.int_to_category(val)
int_to_category ==
    /\ val # NoInt
    /\ LET key == int_to_category_key(val)
           computed == category(from_int(val))
       IN /\ ret' = [op |-> "int_to_category",
                     value |-> CacheValue(catCache, key, computed)]
          /\ catCache' = CacheAfter(catCache, key, computed)
    /\ UNCHANGED <<val, sf, strandCache>>
    /\ UNCHANGED <<cutVars, sharedVars, cliVars>>

\* The key under which int_to_strand caches the result of flag.
int_to_strand_key(flag) == flag

\* SamFlags.int_to_strand(val)
int_to_strand ==
    /\ val # NoInt
    /\ LET key == int_to_strand_key(val)
           computed == strand(from_int(val))
       IN /\ ret' = [op |-> "int_to_strand",
                     value |-> CacheValue(strandCache, key, computed)]
          /\ strandCache' = CacheAfter(strandCache, key, computed)
    /\ UNCHANGED <<val, sf, catCache>>
    /\ UNCHANGED <<cutVars, sharedVars, cliVars>>

\* The caller moves on to a record whose flag differs in one bit; the value
\* returned for the previous record is dropped.
NextFlag ==
    /\ val # NoInt
    /\ \E b \in ToggleBits :
         /\ Toggle(val, b) <= MaxFlag
         /\ val' = Toggle(val, b)
    /\ ret' = NoRet
    /\ UNCHANGED <<sf, catCache, strandCache>>
    /\ UNCHANGED <<cutVars, sharedVars, cliVars>>



-----------------------------------------------------------------------------
(* RecognitionMatcher and EnzymeCutter (spec sections 3, 4.1, 4.2)         *)

Bases == {"A", "C", "G", "T"}

\* The base set each pattern letter stands for.
BaseSet ==
    [ A |-> {"A"}, C |-> {"C"}, G |-> {"G"}, T |-> {"T"},
      N |-> {"A", "C", "G", "T"}, R |-> {"A", "G"}, Y |-> {"C", "T"},
      W |-> {"A", "T"}, S |-> {"C", "G"} ]

Complement ==
    [ A |-> "T", C |-> "G", G |-> "C", T |-> "A",
      N |-> "N", R |-> "Y", Y |-> "R", W |-> "W", S |-> "S" ]

\* The reverse complement of a sequence or of a pattern.
RevComp(x) == [ i \in 1..Len(x) |-> Complement[x[Len(x) + 1 - i]] ]

\* The fixed registry: name -> recognition pattern and cut offset. AloI is
\* known but not supported (it has no single pattern and offset).
Registry ==
    [ EcoRI   |-> [pattern |-> <<"G", "A", "A", "T", "T", "C">>, offset |-> 1],
      HindIII |-> [pattern |-> <<"A", "A", "G", "C", "T", "T">>, offset |-> 1],
      NlaIII  |-> [pattern |-> <<"C", "A", "T", "G">>, offset |-> 4],
      HinfI   |-> [pattern |-> <<"G", "A", "N", "T", "C">>, offset |-> 1],
      MnlI    |-> [pattern |-> <<"C", "C", "T", "C">>, offset |-> 11] ]

SupportedEnzymes == DOMAIN Registry

\* The names a caller may give: the supported ones, AloI, and a name that is
\* in no registry.
EnzymeNames == SupportedEnzymes \cup {"AloI", "NoSuchEnzyme"}

NoCutter == "none"
NoSites == << -1 >>

\* EnzymeCutter.from_name raises for a name it cannot resolve.
from_name_raises(name) == name \notin SupportedEnzymes

\* EnzymeCutter.from_name: the cutter of a supported enzyme.
from_name(name) == name

\* Whether the pattern has an ambiguity code.
Ambiguous(pattern) == \E i \in 1..Len(pattern) : pattern[i] \notin Bases

\* Whether the pattern matches the sequence at 0-based position p.
MatchesAt(s, pattern, p) ==
    /\ p >= 0
    /\ p + Len(pattern) <= Len(s)
    /\ \A i \in 1..Len(pattern) : s[p + i] \in BaseSet[pattern[i]]

\* RecognitionMatcher.find scanning the given strand only.
find_forward_only(s, pattern) ==
    { [position |-> p, strand |-> "+"] :
        p \in { q \in 0..(Len(s) - Len(pattern)) : MatchesAt(s, pattern, q) } }

\* RecognitionMatcher.find: every occurrence, overlapping ones included, on
\* the sequence and (for a pattern that is not its own reverse complement)
\* on its reverse complement, in the coordinates of the sequence.
find(s, pattern) ==
    LET n == Len(s)
        m == Len(pattern)
        fwd == { [position |-> p, strand |-> "+"] :
                   p \in { q \in 0..(n - m) : MatchesAt(s, pattern, q) } }
        rc == RevComp(s)
        rev == { [position |-> n - q - m, strand |-> "-"] :
                   q \in { q \in 0..(n - m) : MatchesAt(rc, pattern, q) } }
    IN IF RevComp(pattern) = pattern THEN fwd ELSE fwd \cup rev

Clamp(x, lo, hi) == IF x < lo THEN lo ELSE IF x > hi THEN hi ELSE x

RECURSIVE SortedSeq(_)
\* The elements of a finite set of integers in ascending order.
SortedSeq(S) ==
    IF S = {} THEN << >>
    ELSE LET least == CHOOSE x \in S : \A y \in S : x <= y
         IN << least >> \o SortedSeq(S \ {least})

\* EnzymeCutter.get_cut_sites: the match positions shifted by the cut offset,
\* clamped to [0, len], deduplicated, ascending.
get_cut_sites(name, s) ==
    LET enz == Registry[name]
    IN SortedSeq({ Clamp(m.position + enz.offset, 0, Len(s)) :
                     m \in find(s, enz.pattern) })

\* The sequences of length n over the four bases.
SeqsOfLen(n) == [1..n -> Bases]

\* cutter = EnzymeCutter.from_name(enzyme)
CallFromName ==
    /\ cutter = NoCutter
    /\ error = "none"
    /\ IF from_name_raises(enzyme)
       THEN /\ error' = "UnsupportedEnzyme"
            /\ UNCHANGED cutter
       ELSE /\ cutter' = from_name(enzyme)
            /\ UNCHANGED error
    /\ UNCHANGED <<enzyme, cutVars, flagVars, cliVars>>

\* sites = cutter.get_cut_sites(seq)
CallGetCutSites ==
    /\ cutter # NoCutter
    /\ sites = NoSites
    /\ sites' = get_cut_sites(cutter, seq)
    /\ UNCHANGED <<seq, sharedVars, flagVars, cliVars>>


-----------------------------------------------------------------------------
(* ConcatemerDigester (spec section 4.3): read.cut(cutter)                  *)

\* s[start:end] with 0-based half-open bounds.
Slice(s, start, end) == SubSeq(s, start + 1, end)

\* The monomers of one concatemer: boundaries = [0] + cut_sites + [len];
\* every consecutive pair with start < end gives a monomer, zero-length
\* intervals are skipped.
cut(s, name) ==
    LET b == << 0 >> \o get_cut_sites(name, s) \o << Len(s) >>
        kept == SortedSeq({ i \in 1..(Len(b) - 1) : b[i] < b[i + 1] })
    IN [ k \in 1..Len(kept) |->
           [ start |-> b[kept[k]],
             end |-> b[kept[k] + 1],
             seq |-> Slice(s, b[kept[k]], b[kept[k] + 1]),
             idx |-> kept[k] - 1,
             total |-> Len(kept) ] ]

-----------------------------------------------------------------------------
(* io/__init__.py: get_alignment_header                                     *)

\* A header as a dict: a function from its keys. {} is the empty function.
EmptyDict == << >>

\* {**a, **b}
Merge(a, b) ==
    [ k \in (DOMAIN a) \cup (DOMAIN b) |-> IF k \in DOMAIN b THEN b[k] ELSE a[k] ]

AlignSuffixes == {".bam", ".sam", ".cram"}

\* settings.DEFAULT_ALIGN_HEADER
DEFAULT_ALIGN_HEADER == [origin |-> "DEFAULT_ALIGN_HEADER", data |-> EmptyDict]

\* AlignmentHeader.from_dict(data)
from_dict(data) == [origin |-> "from_dict", data |-> data]

NoHeader == [origin |-> "none", data |-> EmptyDict]
NoFasta == [given |-> FALSE, header |-> EmptyDict]

\* bams = [f for f in source_files if f.suffix in (".bam", ".sam", ".cram")]
Bams(source_files) == SelectSeq(source_files, LAMBDA f : f.suffix \in AlignSuffixes)

\* get_alignment_header raising only from the third alignment file on.
get_alignment_header_raises_late(source_files) == Len(Bams(source_files)) > 2

\* Whether get_alignment_header raises NotImplementedError (too many bams).
get_alignment_header_raises(source_files) == Len(Bams(source_files)) > 1

\* The header get_alignment_header returns when it does not raise.
get_alignment_header(source_files, reference_fasta) ==
    LET bams == Bams(source_files)
        d1 == IF Len(source_files) > 0 /\ Len(bams) = 1
              THEN Merge(EmptyDict, bams[1].header)
              ELSE EmptyDict
        d2 == IF reference_fasta.given THEN Merge(d1, reference_fasta.header) ELSE d1
    IN IF DOMAIN d2 = {} THEN DEFAULT_ALIGN_HEADER ELSE from_dict(d2)

-----------------------------------------------------------------------------
(* utils.py: FileCollection, and the output keys of cli.py                  *)

\* The (flag, filekey) pairs of parse_bam and export_bam.
FlagOf ==
    [ namesorted_bam |-> "monomers", paired_end_bam |-> "paired_end",
      chromunity_parquet |-> "chromunity", summary_json |-> "summary" ]

OutputKeys == DOMAIN FlagOf

\* The fields of AnnotatedMonomerFC formatted with the prefix.
OutputPath ==
    [ namesorted_bam |-> "prefix.ns.bam", paired_end_bam |-> "prefix.pe.bam",
      chromunity_parquet |-> "prefix.chromunity.parquet",
      summary_json |-> "prefix.summary.json" ]

AllOutputPaths == { OutputPath[k] : k \in OutputKeys }

None == "None"

\* drop_outputs with the test of the flag inverted.
drop_outputs_inverted(o) == { k \in OutputKeys : o[FlagOf[k]] }

\* drop_outputs: the keys whose flag is off.
drop_outputs(o) == { k \in OutputKeys : ~o[FlagOf[k]] }

\* at_least_one of export_bam
at_least_one(o) == \E k \in OutputKeys : o[FlagOf[k]]

\* FileCollection.with_prefix(prefix, drop)
with_prefix(drop) ==
    [ k \in OutputKeys |-> IF drop # {} /\ k \in drop THEN None ELSE OutputPath[k] ]

\* FileCollection.existing testing only whether the default path exists.
existing_ignoring_drop(fc, files) == { k \in DOMAIN fc : OutputPath[k] \in files }

\* FileCollection.existing
existing(fc, files) == { k \in DOMAIN fc : fc[k] # None /\ fc[k] \in files }

\* FileCollection.exists_any
exists_any(fc, files) == Cardinality(existing(fc, files)) > 0

-----------------------------------------------------------------------------
(* cli.py: digest                                                           *)

NoLimit == -1

\* islice taking one read more than asked.
ReadLimitOffByOne(n) == IF n # 0 THEN n + 1 ELSE NoLimit

\* if max_reads: read_stream = islice(read_stream, max_reads)
ReadLimit(n) == IF n # 0 THEN n ELSE NoLimit

\* Whether the read stream yields another concatemer: islice stops at its
\* limit without asking upstream.
CanPull == 
    /\ pulled < Len(upstream)
    /\ ReadLimit(max_reads) # NoLimit => pulled < ReadLimit(max_reads)

\* The monomer stream without the first monomer of each read.
MonomersOfRest(read, name) ==
    LET all == cut(read, name)
    IN IF all = << >> THEN all ELSE Tail(all)

\* monomer.read_seq for monomer in read.cut(cutter)
MonomersOf(read, name) == cut(read, name)

Fail(e) == error' = e /\ pc' = "failed"

\* find_files and get_alignment_header (all three commands), then for digest
\* the lazy read stream and its islice.
GetHeader ==
    /\ pc = "header"
    /\ IF get_alignment_header_raises(input_files)
       THEN /\ Fail("NotImplementedError")
            /\ UNCHANGED header
       ELSE /\ header' = get_alignment_header(input_files, NoFasta)
            /\ pc' = IF cmd = "digest" THEN "cutter" ELSE "open"
            /\ UNCHANGED error
    /\ UNCHANGED <<cliIn, writer, created, fromNameCalls, digestVars, bamVars>>
    /\ UNCHANGED <<enzyme, cutter, cutVars, flagVars>>

\* cutter = EnzymeCutter.from_name(enzyme) building the cutter unchecked.
DigestFromNameUnchecked ==
    /\ cmd = "digest"
    /\ pc = "cutter"
    /\ fromNameCalls' = fromNameCalls + 1
    /\ cutter' = from_name(enzyme)
    /\ pc' = "open"
    /\ UNCHANGED <<cliIn, header, writer, created, digestVars, bamVars>>
    /\ UNCHANGED <<enzyme, error, cutVars, flagVars>>

\* cutter = EnzymeCutter.from_name(enzyme)
DigestFromName ==
    /\ cmd = "digest"
    /\ pc = "cutter"
    /\ fromNameCalls' = fromNameCalls + 1
    /\ IF from_name_raises(enzyme)
       THEN /\ Fail("UnsupportedEnzyme")
            /\ UNCHANGED cutter
       ELSE /\ cutter' = from_name(enzyme)
            /\ pc' = "open"
            /\ UNCHANGED error
    /\ UNCHANGED <<cliIn, header, writer, created, digestVars, bamVars>>
    /\ UNCHANGED <<enzyme, cutVars, flagVars>>

\* with closing(get_monomer_writer(output_bam, header=header)) as writer
DigestOpenWriter ==
    /\ cmd = "digest"
    /\ pc = "open"
    /\ writer' = "open"
    /\ created' = {"output_bam"}
    /\ pc' = "consume"
    /\ UNCHANGED <<cliIn, header, fromNameCalls, digestVars, bamVars>>
    /\ UNCHANGED <<sharedVars, cutVars, flagVars>>

\* writer.consume asks for a monomer and the stream pulls the next concatemer
DigestPullRead ==
    /\ cmd = "digest"
    /\ pc = "consume"
    /\ cur = << >>
    /\ CanPull
    /\ pulled' = pulled + 1
    /\ IF from_name_raises(cutter)
       THEN /\ Fail("UnsupportedEnzyme")
            /\ UNCHANGED cur
       ELSE /\ cur' = [ k \in 1..Len(MonomersOf(upstream[pulled + 1], cutter)) |->
                          [read |-> pulled + 1,
                           mono |-> MonomersOf(upstream[pulled + 1], cutter)[k]] ]
            /\ UNCHANGED <<pc, error>>
    /\ UNCHANGED <<cliIn, header, writer, created, fromNameCalls, written, bamVars>>
    /\ UNCHANGED <<enzyme, cutter, cutVars, flagVars>>

\* writer.consume writes the next monomer of the current concatemer
DigestWriteMonomer ==
    /\ cmd = "digest"
    /\ pc = "consume"
    /\ cur # << >>
    /\ written' = Append(written, Head(cur))
    /\ cur' = Tail(cur)
    /\ UNCHANGED <<cliIn, pc, header, writer, created, fromNameCalls, pulled, bamVars>>
    /\ UNCHANGED <<sharedVars, cutVars, flagVars>>

\* the monomer stream is exhausted: consume returns and closing() closes
DigestFinish ==
    /\ cmd = "digest"
    /\ pc = "consume"
    /\ cur = << >>
    /\ ~CanPull
    /\ writer' = "closed"
    /\ pc' = "done"
    /\ UNCHANGED <<cliIn, header, created, fromNameCalls, digestVars, bamVars>>
    /\ UNCHANGED <<sharedVars, cutVars, flagVars>>

-----------------------------------------------------------------------------
(* cli.py: parse_bam and export_bam                                         *)

Categories == DOMAIN AlignCategory

RECURSIVE SortByStart(_)
\* The alignments of one concatemer ordered by the monomer's start, ties by
\* their order of arrival.
SortByStart(g) ==
    IF g = << >> THEN << >>
    ELSE LET least == CHOOSE i \in 1..Len(g) :
                        \A j \in 1..Len(g) :
                           \/ g[i].start < g[j].start
                           \/ g[i].start = g[j].start /\ g[i].idx <= g[j].idx
         IN << g[least] >> \o SortByStart(Without(g, least))

RECURSIVE CountAll(_, _)
\* counter[category] += 1 for every record of recs
CountAll(counter, recs) ==
    IF recs = << >> THEN counter
    ELSE CountAll([counter EXCEPT ![category(from_int(Head(recs).flag))] = @ + 1],
                  Tail(recs))

\* drop_outputs, at_least_one (export_bam), with_prefix and the exists_any
\* test: nothing has been read or opened yet.
BamCheckOutputs ==
    /\ cmd \in {"parse_bam", "export_bam"}
    /\ pc = "check"
    /\ IF cmd = "export_bam" /\ ~at_least_one(opts)
       THEN /\ Fail("Exit")
            /\ UNCHANGED outputs
       ELSE /\ outputs' = with_prefix(drop_outputs(opts))
            /\ IF exists_any(outputs', fs) /\ ~opts.force
               THEN Fail("IOError")
               ELSE pc' = "header" /\ UNCHANGED error
    /\ UNCHANGED <<cliIn, header, writer, created, fromNameCalls, digestVars>>
    /\ UNCHANGED <<alignsPulled, group, nsWritten, nsCounter>>
    /\ UNCHANGED <<enzyme, cutter, cutVars, flagVars>>

\* get_monomer_aligns and the annotating / grouping stream are lazy;
\* AnnotatedMonomerWriter.from_file_collection opens a writer per output path
BamOpenWriter ==
    /\ cmd \in {"parse_bam", "export_bam"}
    /\ pc = "open"
    /\ writer' = "open"
    /\ created' = { outputs[k] : k \in { j \in OutputKeys : outputs[j] # None } }
    /\ pc' = "consume"
    /\ UNCHANGED <<cliIn, header, fromNameCalls, digestVars, bamVars>>
    /\ UNCHANGED <<sharedVars, cutVars, flagVars>>

\* the grouping stream pulls the next alignment of the current concatemer
BamPullAlign ==
    /\ cmd \in {"parse_bam", "export_bam"}
    /\ pc = "consume"
    /\ alignsPulled < Len(aligns)
    /\ IF group = << >> THEN TRUE ELSE aligns[alignsPulled + 1].cid = group[1].cid
    /\ alignsPulled' = alignsPulled + 1
    /\ group' = Append(group, [ idx |-> alignsPulled + 1,
                                cid |-> aligns[alignsPulled + 1].cid,
                                start |-> aligns[alignsPulled + 1].start,
                                flag |-> aligns[alignsPulled + 1].flag ])
    /\ UNCHANGED <<cliIn, pc, header, writer, created, fromNameCalls, digestVars>>
    /\ UNCHANGED <<outputs, nsWritten, nsCounter>>
    /\ UNCHANGED <<sharedVars, cutVars, flagVars>>

\* the concatemer is complete: writer.consume writes its alignments, ordered
\* by start, to the name-sorted output (when there is one) and counts them
BamWriteGroup ==
    /\ cmd \in {"parse_bam", "export_bam"}
    /\ pc = "consume"
    /\ group # << >>
    /\ IF alignsPulled = Len(aligns) THEN TRUE
       ELSE aligns[alignsPulled + 1].cid # group[1].cid
    /\ LET ordered == SortByStart(group)
       IN IF outputs["namesorted_bam"] # None
          THEN /\ nsWritten' = nsWritten \o [ k \in 1..Len(ordered) |-> ordered[k].idx ]
               /\ nsCounter' = CountAll(nsCounter, ordered)
          ELSE UNCHANGED <<nsWritten, nsCounter>>
    /\ group' = << >>
    /\ UNCHANGED <<cliIn, pc, header, writer, created, fromNameCalls, digestVars>>
    /\ UNCHANGED <<outputs, alignsPulled>>
    /\ UNCHANGED <<sharedVars, cutVars, flagVars>>

\* the stream is exhausted: consume returns and closing() closes the writer
BamFinish ==
    /\ cmd \in {"parse_bam", "export_bam"}
    /\ pc = "consume"
    /\ group = << >>
    /\ alignsPulled = Len(aligns)
    /\ writer' = "closed"
    /\ pc' = "done"
    /\ UNCHANGED <<cliIn, header, created, fromNameCalls, digestVars, bamVars>>
    /\ UNCHANGED <<sharedVars, cutVars, flagVars>>

-----------------------------------------------------------------------------
(* The inputs of the commands                                               *)

HD == [HD |-> "VN:1.6"]

File(suffix, hdr) == [suffix |-> suffix, header |-> hdr]

\* What find_files may yield for digest: fastq files, alignment files with
\* and without header lines, several of them, or nothing.
DigestInputs ==
    { << >>,
      << File(".fastq", EmptyDict) >>,
      << File(".bam", HD) >>,
      << File(".sam", EmptyDict) >>,
      << File(".fastq", EmptyDict), File(".cram", HD) >>,
      << File(".bam", HD), File(".sam", HD) >>,
      << File(".bam", HD), File(".fastq", EmptyDict), File(".bam", EmptyDict) >> }

\* The file given to parse_bam / export_bam.
BamInputs ==
    { << File(".bam", HD) >>, << File(".sam", EmptyDict) >>,
      << File(".cram", HD) >>, << File(".ubam", HD) >> }

\* The concatemers a read stream is made of.
ReadPool ==
    { << >>,
      << "G", "A", "A", "T", "T", "C", "A", "T", "G" >>,
      << "C", "C", "T", "C", "G", "A", "G", "T", "C" >>,
      << "A", "C", "A", "T", "G", "C", "A", "T", "G", "T" >> }

Streams(pool, n) == UNION { [1..k -> pool] : k \in 0..n }

\* The alignments an input is made of: concatemer id, monomer start, flag.
AlignPool == [ cid : {"c1", "c2"}, start : {0, 5}, flag : {0, 4, 256, 2048} ]

OptNames == {"force", "monomers", "paired_end", "chromunity", "summary"}

NoOpts == [ o \in OptNames |-> FALSE ]

NoOutputs == << >>

ZeroCounter == [ c \in Categories |-> 0 ]

\* What every command starts with.
InitRun ==
    /\ header = NoHeader
    /\ outputs = NoOutputs
    /\ writer = "none"
    /\ created = {}
    /\ fromNameCalls = 0
    /\ pulled = 0
    /\ cur = << >>
    /\ written = << >>
    /\ alignsPulled = 0
    /\ group = << >>
    /\ nsWritten = << >>
    /\ nsCounter = ZeroCounter
    /\ cutter = NoCutter
    /\ error = "none"
    /\ seq = << >>
    /\ sites = NoSites

\* No command is running.
IdleCli ==
    /\ cmd = "none"
    /\ pc = "idle"
    /\ input_files = << >>
    /\ max_reads = 0
    /\ upstream = << >>
    /\ opts = NoOpts
    /\ fs = {}
    /\ aligns = << >>
    /\ header = NoHeader
    /\ outputs = NoOutputs
    /\ writer = "none"
    /\ created = {}
    /\ fromNameCalls = 0
    /\ pulled = 0
    /\ cur = << >>
    /\ written = << >>
    /\ alignsPulled = 0
    /\ group = << >>
    /\ nsWritten = << >>
    /\ nsCounter = ZeroCounter

-----------------------------------------------------------------------------
(* Specifications *)

\* The cutter harness and the commands at rest.
IdleCutter ==
    /\ seq = << >>
    /\ sites = << -1 >>
    /\ enzyme = "none"
    /\ cutter = "none"
    /\ error = "none"

\* The SamFlags harness at rest.
IdleFlags ==
    /\ val = NoInt
    /\ sf = NoFlags
    /\ ret = NoRet
    /\ catCache = << >>
    /\ strandCache = << >>

\* Round trips: the caller starts from an integer, or from a SamFlags object
\* built with the constructor.
InitRoundTrip ==
    /\ \/ val \in 0..MaxFlag /\ sf = NoFlags
       \/ val = NoInt /\ sf \in AllSamFlags
    /\ ret = NoRet
    /\ catCache = << >>
    /\ strandCache = << >>
    /\ IdleCutter
    /\ IdleCli

NextRoundTrip == CallFromInt \/ CallToInt \/ CallFromIntOfRet

SpecRoundTrip == InitRoundTrip /\ [][NextRoundTrip]_vars

\* Derived fields: the caller classifies the flags of a stream of records.
InitDerived ==
    /\ val \in 0..MaxFlag
    /\ sf = NoFlags
    /\ ret = NoRet
    /\ catCache = << >>
    /\ strandCache = << >>
    /\ IdleCutter
    /\ IdleCli

NextDerived ==
    \/ CallCategory \/ CallStrand \/ CallPrimary
    \/ int_to_category \/ int_to_strand \/ NextFlag

SpecDerived == InitDerived /\ [][NextDerived]_vars

InitCutter ==
    /\ IdleFlags
    /\ IdleCli
    /\ \E n \in 0..MaxSeqLen : seq \in SeqsOfLen(n)
    /\ sites = NoSites
    /\ enzyme \in EnzymeNames
    /\ cutter = NoCutter
    /\ error = "none"

NextCutter == CallFromName \/ CallGetCutSites

SpecCutter == InitCutter /\ [][NextCutter]_vars

\* digest INPUT ENZYME OUTPUT --max-reads N
InitDigest ==
    /\ cmd = "digest"
    /\ pc = "header"
    /\ input_files \in DigestInputs
    /\ enzyme \in EnzymeNames
    /\ max_reads \in 0..MaxStreamLen
    /\ upstream \in Streams(ReadPool, MaxStreamLen)
    /\ opts = NoOpts
    /\ fs = {}
    /\ aligns = << >>

\* parse_bam / export_bam with every combination of flags and of existing
\* outputs, on an input of at most one alignment.
InitBamOutputs ==
    /\ cmd \in {"parse_bam", "export_bam"}
    /\ pc = "check"
    /\ input_files \in BamInputs
    /\ opts \in [OptNames -> BOOLEAN]
    /\ fs \in SUBSET AllOutputPaths
    /\ aligns \in Streams({ [cid |-> "c1", start |-> 0, flag |-> 0] }, 1)

\* parse_bam / export_bam into a fresh prefix, with and without the
\* name-sorted output, on every input of up to MaxAligns alignments.
InitBamStream ==
    /\ cmd \in {"parse_bam", "export_bam"}
    /\ pc = "check"
    /\ input_files = << File(".bam", HD) >>
    /\ opts \in { [NoOpts EXCEPT !["monomers"] = m, !["paired_end"] = q] :
                    m \in BOOLEAN, q \in BOOLEAN }
    /\ fs = {}
    /\ aligns \in Streams(AlignPool, MaxAligns)

InitCli ==
    /\ IdleFlags
    /\ InitRun
    /\ \/ InitDigest
       \/ /\ \/ InitBamOutputs
             \/ InitBamStream
          /\ enzyme = "none"
          /\ max_reads = 0
          /\ upstream = << >>

NextCli ==
    \/ GetHeader
    \/ DigestFromName
    \/ DigestOpenWriter
    \/ DigestPullRead
    \/ DigestWriteMonomer
    \/ DigestFinish
    \/ BamCheckOutputs
    \/ BamOpenWriter
    \/ BamPullAlign
    \/ BamWriteGroup
    \/ BamFinish

SpecCli == InitCli /\ [][NextCli]_vars
-----------------------------------------------------------------------------
(* Properties of the SamFlags functions *)

\* Bit b (a power of two) of v, read arithmetically.
HasBit(v, b) == (v \div b) % 2 = 1

\* The category the precedence secondary > supplementary > unmapped > primary
\* gives to a bitmask.
ExpectedCategory(v) ==
    IF HasBit(v, 256) THEN "secondary"
    ELSE IF HasBit(v, 2048) THEN "supplementary"
    ELSE IF HasBit(v, 4) THEN "unmapped"
    ELSE "primary"

\* The strand of a bitmask: '.' when unmapped, else by the reverse bit.
ExpectedStrand(v) ==
    IF HasBit(v, 4) THEN "."
    ELSE IF HasBit(v, 16) THEN "-"
    ELSE "+"

\* C1: for every bitmask the category returned by from_int(flag).category and
\* by the cached int_to_category(flag) depends on the bitmask alone and follows
\* the precedence secondary > supplementary > unmapped > primary; every cached
\* entry holds that category too, so repeated calls agree.
C1_CategoryPrecedence ==
    /\ ret.op \in {"category", "int_to_category"} => ret.value = ExpectedCategory(val)
    /\ \A i \in 1..Len(catCache) :
         catCache[i].value = ExpectedCategory(catCache[i].key)

\* A cached call answered secondary for a bitmask that also has the
\* supplementary and the unmapped bit.
C1_Witness ==
    /\ ret.op = "int_to_category"
    /\ HasBit(val, 256) /\ HasBit(val, 2048) /\ HasBit(val, 4)
    /\ ret.value = "secondary"
    /\ CacheHit(catCache, val)

\* C9: for every bitmask the strand is '.' exactly when the unmapped bit is
\* set, whatever the reverse bit, else '-' with the reverse bit and '+'
\* without; the cached int_to_strand(flag) equals from_int(flag).strand.
C9_Strand ==
    /\ ret.op \in {"strand", "int_to_strand"} =>
         /\ ret.value = ExpectedStrand(val)
         /\ (ret.value = ".") <=> HasBit(val, 4)
         /\ ret.value = strand(from_int(val))
    /\ \A i \in 1..Len(strandCache) :
         strandCache[i].value = ExpectedStrand(strandCache[i].key)

\* A cached call answered '.' for an unmapped record with the reverse bit.
C9_Witness ==
    /\ ret.op = "int_to_strand"
    /\ HasBit(val, 4) /\ HasBit(val, 16)
    /\ ret.value = "."
    /\ CacheHit(strandCache, val)

\* C11: for every bitmask, primary is true exactly when the derived category
\* is primary or unmapped (the unmapped bit is ignored): category = primary
\* implies primary, and an unmapped record with neither the secondary nor the
\* supplementary bit has primary true and category unmapped.
C11_PrimaryVsCategory ==
    ret.op = "primary" =>
        LET cat == category(from_int(val))
        IN /\ ret.value <=> (cat \in {"primary", "unmapped"})
           /\ ret.value <=> (ExpectedCategory(val) \in {"primary", "unmapped"})
           /\ ret.value <=> (~HasBit(val, 256) /\ ~HasBit(val, 2048))
           /\ cat = "primary" => ret.value
           /\ (HasBit(val, 4) /\ ~HasBit(val, 256) /\ ~HasBit(val, 2048)) =>
                  (ret.value /\ cat = "unmapped")

\* primary answered true for an unmapped record, whose category is unmapped.
C11_Witness ==
    /\ ret.op = "primary"
    /\ HasBit(val, 4) /\ ~HasBit(val, 256) /\ ~HasBit(val, 2048)
    /\ ret.value = TRUE
    /\ category(from_int(val)) = "unmapped"

\* C10: from_int and to_int are inverse over the 12 defined bits:
\* from_int(v).to_int() = v for 0 <= v < 4096 and v mod 4096 above, and
\* from_int(f.to_int()) = f for every SamFlags value f.
C10_RoundTrip ==
    /\ (ret.op = "to_int" /\ val # NoInt) =>
         /\ val < 4096 => ret.value = val
         /\ val >= 4096 => ret.value = val % 4096
    /\ ret.op = "from_int_of_to_int" => ret.value = sf

\* to_int dropped the bit above 2048 of an integer that has lower bits too.
C10_Witness ==
    /\ ret.op = "to_int"
    /\ val > 4096
    /\ ret.value = val - 4096
    /\ HasBit(ret.value, 256)

-----------------------------------------------------------------------------
(* Properties of the cutter *)

\* The exact occurrences of a pattern without ambiguity codes and of its
\* reverse complement, found by comparing letters, each shifted by offset.
BruteForceSites(s, pattern, offset) ==
    LET m == Len(pattern)
        rcp == RevComp(pattern)
        At(p, w) == \A i \in 1..m : s[p + i] = w[i]
    IN SortedSeq({ p + offset : p \in { q \in 0..(Len(s) - m) : At(q, pattern) \/ At(q, rcp) } })

BruteForceClamped(s, pattern, offset) ==
    LET m == Len(pattern)
        rcp == RevComp(pattern)
        At(p, w) == \A i \in 1..m : s[p + i] = w[i]
    IN SortedSeq({ Clamp(p + offset, 0, Len(s)) :
                     p \in { q \in 0..(Len(s) - m) : At(q, pattern) \/ At(q, rcp) } })

-----------------------------------------------------------------------------
(* Properties of the commands *)

\* The monomers written for concatemer i of the stream, in writing order.
WrittenOf(i) == SelectSeq(written, LAMBDA w : w.read = i)

RECURSIVE ConcatMonomers(_)
\* The sequences of the monomers, joined in order.
ConcatMonomers(ms) ==
    IF ms = << >> THEN << >> ELSE Head(ms).mono.seq \o ConcatMonomers(Tail(ms))

\* Concatemer i has been pulled and all its monomers have been written.
FullyWritten(i) == i < pulled \/ (i = pulled /\ cur = << >> /\ pc # "failed")

\* C2: for every concatemer and every cutter the monomers digest streams to
\* the writer, joined in sub-read order, give back the concatemer: they are
\* contiguous, do not overlap, none is empty, and they cover [0, len).
C2_DigestRoundTrip ==
    cmd = "digest" =>
        /\ \A k \in 1..Len(written) :
             /\ written[k].mono.start < written[k].mono.end
             /\ Len(written[k].mono.seq) > 0
             /\ written[k].mono.seq =
                  Slice(upstream[written[k].read], written[k].mono.start, written[k].mono.end)
        /\ \A i \in 1..pulled : FullyWritten(i) =>
             LET ms == WrittenOf(i)
             IN /\ ConcatMonomers(ms) = upstream[i]
                /\ \A k \in 1..(Len(ms) - 1) :
                     /\ ms[k].mono.end = ms[k + 1].mono.start
                     /\ ms[k].mono.idx < ms[k + 1].mono.idx
                /\ Len(ms) > 0 => ms[1].mono.start = 0 /\ ms[Len(ms)].mono.end = Len(upstream[i])
                /\ Len(ms) = 0 => upstream[i] = << >>

\* NlaIII cut a concatemer in three and left one whose only site is at its
\* end (a zero-length interval) whole.
C2_Witness ==
    /\ cmd = "digest" /\ pc = "done" /\ cutter = "NlaIII"
    /\ pulled = 2
    /\ Len(WrittenOf(1)) = 3
    /\ Len(WrittenOf(2)) = 1
    /\ get_cut_sites(cutter, upstream[2]) = << Len(upstream[2]) >>

\* C3: an enzyme name that is unknown or unsupported fails in
\* EnzymeCutter.from_name: digest stops there with no concatemer pulled, no
\* monomer produced, no get_cut_sites call and no writer opened, it never
\* gets past from_name with such a name, and from_name is called once.
C3_EnzymeFailsFast ==
    /\ error = "UnsupportedEnzyme" =>
         /\ cmd = "digest" /\ pc = "failed"
         /\ from_name_raises(enzyme)
         /\ pulled = 0 /\ cur = << >> /\ written = << >>
         /\ writer = "none" /\ created = {}
         /\ cutter = NoCutter
    /\ (cmd = "digest" /\ pc \in {"open", "consume", "done"}) => ~from_name_raises(enzyme)
    /\ fromNameCalls <= 1

\* digest with AloI failed with a header read and reads waiting upstream.
C3_Witness ==
    /\ cmd = "digest" /\ pc = "failed"
    /\ error = "UnsupportedEnzyme"
    /\ enzyme = "AloI"
    /\ header # NoHeader
    /\ Len(upstream) > 0
    /\ fromNameCalls = 1

\* The number of alignment-format files among the source files.
NumAlignFiles ==
    Cardinality({ i \in 1..Len(input_files) : input_files[i].suffix \in {".bam", ".sam", ".cram"} })

\* The one alignment-format file, when there is exactly one.
TheAlignFile ==
    input_files[CHOOSE i \in 1..Len(input_files) :
                  input_files[i].suffix \in {".bam", ".sam", ".cram"}]

\* get_alignment_header has been called.
HeaderCalled == pc \notin {"idle", "check", "header"} /\ error \notin {"IOError", "Exit"}

\* With more than one alignment-format file the command fails with
\* NotImplementedError, and only then, before anything is read or opened.
TooManyHeadersFailFirst ==
    /\ error = "NotImplementedError" =>
         /\ NumAlignFiles > 1
         /\ pc = "failed"
         /\ header = NoHeader
         /\ pulled = 0 /\ cur = << >> /\ written = << >>
         /\ alignsPulled = 0 /\ group = << >> /\ nsWritten = << >>
         /\ writer = "none" /\ created = {}
         /\ cutter = NoCutter /\ fromNameCalls = 0
    /\ (HeaderCalled /\ NumAlignFiles > 1) => error = "NotImplementedError"
    /\ (HeaderCalled /\ NumAlignFiles <= 1) => error # "NotImplementedError" /\ header # NoHeader

\* The original statement of C4: too many alignment files fail first; with
\* exactly one its header is used, and with none the default header.
C4_Original ==
    /\ TooManyHeadersFailFirst
    /\ (header # NoHeader /\ NumAlignFiles = 1) => header = from_dict(TheAlignFile.header)
    /\ (header # NoHeader /\ NumAlignFiles = 0) => header = DEFAULT_ALIGN_HEADER

\* C4 (amended): with more than one alignment-format file
\* get_alignment_header raises NotImplementedError before any record is
\* read, grouped or annotated and before any writer is opened; with exactly
\* one such file its header is used when it has at least one entry, and the
\* default header is returned when that header is empty or there is no such
\* file.
C4_HeaderSelection ==
    /\ TooManyHeadersFailFirst
    /\ (header # NoHeader /\ NumAlignFiles = 1) =>
         header = IF DOMAIN TheAlignFile.header = {} THEN DEFAULT_ALIGN_HEADER
                  ELSE from_dict(TheAlignFile.header)
    /\ (header # NoHeader /\ NumAlignFiles = 0) => header = DEFAULT_ALIGN_HEADER

\* digest found two alignment files and failed although the enzyme is not
\* supported either and reads wait upstream.
C4_Witness ==
    /\ cmd = "digest" /\ pc = "failed"
    /\ error = "NotImplementedError"
    /\ NumAlignFiles = 2
    /\ from_name_raises(enzyme)
    /\ Len(upstream) > 0

\* The sum of the name-sorted writer's counters.
RECURSIVE SumCounter(_, _)
SumCounter(counter, cats) ==
    IF cats = {} THEN 0
    ELSE LET c == CHOOSE x \in cats : TRUE
         IN counter[c] + SumCounter(counter, cats \ {c})

RECURSIVE MonomersOfFirst(_)
\* The monomers of the first n concatemers of the stream, in order.
MonomersOfFirst(n) ==
    IF n = 0 THEN << >>
    ELSE MonomersOfFirst(n - 1) \o
         [ k \in 1..Len(cut(upstream[n], cutter)) |->
             [read |-> n, mono |-> cut(upstream[n], cutter)[k]] ]

Min(a, b) == IF a < b THEN a ELSE b

\* C7: with max_reads = n > 0 digest never pulls more than n concatemers and
\* writes the monomers of the first n only; with max_reads = 0 it digests
\* every concatemer.
C7_MaxReads ==
    cmd = "digest" =>
        /\ max_reads > 0 => pulled <= max_reads
        /\ \A k \in 1..Len(written) : written[k].read <= pulled
        /\ pc = "done" =>
             /\ pulled = IF max_reads > 0 THEN Min(max_reads, Len(upstream))
                         ELSE Len(upstream)
             /\ written = MonomersOfFirst(pulled)

\* digest --max-reads 1 finished with a second concatemer left upstream.
C7_Witness ==
    /\ cmd = "digest" /\ pc = "done"
    /\ max_reads = 1
    /\ Len(upstream) = 2
    /\ pulled = 1
    /\ Len(written) >= 2

\* The outputs asked for: those whose flag is on.
Requested == { k \in OutputKeys : opts[FlagOf[k]] }

\* C8: parse_bam and export_bam raise IOError exactly when force is false
\* and a requested output path exists, before the header or any alignment is
\* read and before any writer is opened; a dropped output never counts, and
\* with force the run goes on.
C8_ExistingOutputs ==
    cmd \in {"parse_bam", "export_bam"} =>
        /\ pc # "check" =>
             (error = "IOError" <=>
                (~opts.force /\ \E k \in Requested : OutputPath[k] \in fs))
        /\ error = "IOError" =>
             /\ pc = "failed"
             /\ header = NoHeader
             /\ alignsPulled = 0 /\ group = << >> /\ nsWritten = << >>
             /\ writer = "none" /\ created = {}
        /\ created \subseteq { OutputPath[k] : k \in Requested }

\* export_bam went on past an existing output that was not asked for.
C8_Witness ==
    /\ cmd = "export_bam" /\ pc = "done"
    /\ ~opts.force
    /\ ~opts.monomers /\ OutputPath["namesorted_bam"] \in fs
    /\ opts.paired_end /\ OutputPath["paired_end_bam"] \notin fs
    /\ created = { OutputPath["paired_end_bam"] }

=============================================================================
